---- MODULE Spec2Model ----
(***************************************************************************)
(* Model of the brush-sculpting core of SimpleViewer.tsx (EditableScene    *)
(* and the SimpleViewer toolbar around it).                                *)
(*                                                                         *)
(* Numbers.  Coordinates are floats in the source (a Float32Array).  Here  *)
(* they are fixed-point integers, Q units per 1.0.  A distance is the      *)
(* floor of the square root (so `dist < brushSize` is exact for a radius   *)
(* on the grid), and a displacement is rounded away from zero, so that a   *)
(* displacement is zero in the model exactly when it is zero in real       *)
(* arithmetic and keeps its sign.                                          *)
(*                                                                         *)
(* React.  A handler, the re-render it causes and the effects of that      *)
(* re-render are one atomic step (React 18 batches the state updates of    *)
(* one handler).  The pointer handlers are closures created by the pointer *)
(* effect; they see the state of the render in which that effect last ran. *)
(* Every state they read is a dependency of the effect except              *)
(* lastMousePosition, whose captured value is capturedLast.  The brush     *)
(* size and strength they see are capturedBrush: dependencies of the       *)
(* effect in EditableScene, but not in SculptableModel (the same handlers  *)
(* and the same sculptMesh, under the NoseEditor toolbar).                 *)
(***************************************************************************)
EXTENDS Integers, Sequences, FiniteSets, TLC

VARIABLES
  modelUrl,          \* SimpleViewer state: object URL of the uploaded file, or NULL
  nextUrl,           \* number of object URLs created so far
  pending,           \* loads in flight: set of [url, file]
  isLoading,         \* EditableScene state
  meshRef,           \* EditableScene state: the sculpted mesh, as the load [url, file]
                     \* it came from, or NoMesh
  positions,         \* meshRef.geometry.attributes.position, a sequence of vectors
  normals,           \* meshRef.geometry.attributes.normal
  index,             \* meshRef.geometry.index, a sequence of vertex-index triples
  matrixWorld,       \* meshRef.matrixWorld: [scale, position]
  originalVertices,  \* EditableScene state: snapshot taken at load, or NoArray
  brushPosition,     \* EditableScene state: last contact point (world)
  isModifying,       \* EditableScene state: a stroke is in progress
  lastMousePosition, \* EditableScene state
  capturedLast,      \* lastMousePosition as seen by the attached pointer handlers
  capturedBrush,     \* [size, strength]: the brushSize and brushStrength props as
                     \* seen by the attached pointer handlers
  mouse,             \* useThree().mouse, the shared cursor object
  activeTool,        \* SimpleViewer state
  brushSize,         \* SimpleViewer state
  brushStrength,     \* SimpleViewer state
  edits,             \* number of brush applications that changed a position since
                     \* the positions were last those of the snapshot
  uploader,          \* ModelUploader: its state isLoading and uploadProgress, the
                     \* FileReaders in flight (drop number and file), and a log
                     \* with, per dropped file, the number of calls of the props
                     \* onModelLoaded and onError and isLoading after the last
  call               \* the handler that has just run, when it was a brush application
                     \* (with its arguments and the positions before it), a reset or
                     \* the end of a load or the pointer down that began a stroke or
                     \* the pointer up that ended one; "none" after every other handler

vars == <<modelUrl, nextUrl, pending, isLoading, meshRef, positions, normals, index,
          matrixWorld, originalVertices, brushPosition, isModifying,
          lastMousePosition, capturedLast, capturedBrush, mouse, activeTool,
          brushSize, brushStrength, edits, call, uploader>>

----------------------------------------------------------------------------
(* Bounds of the exploration *)

MaxEdits == 1
MaxLoads == 1
MaxSmooths == 4
MaxRaceLoads == 2
MaxDrops == 2

----------------------------------------------------------------------------
(* Numbers *)

\* null, for a URL (object URLs are numbered from 1)
NULL == 0

\* undefined, for an optional vector
Undefined == << >>

\* useState<Float32Array | null>: << >> is null, <<a>> is the array a
NoArray == << >>

ArrayOf(a) == <<a>>

\* useState<THREE.Mesh | null>: null
NoMesh == [url |-> 0, file |-> "none"]

\* fixed-point units per 1.0, for coordinates, radii and unit vectors
Q == 100

\* cursor units per 1.0 of normalized device coordinates
CursorQ == 10

Abs(n) == IF n < 0 THEN -n ELSE n

Sgn(n) == IF n < 0 THEN -1 ELSE IF n > 0 THEN 1 ELSE 0

\* n / d rounded away from zero, d # 0
DivAway(n, d) == Sgn(n) * Sgn(d) * ((Abs(n) + Abs(d) - 1) \div Abs(d))

RECURSIVE SqrtSearch(_, _, _)
SqrtSearch(n, lo, hi) ==
  IF hi - lo <= 1 THEN lo
  ELSE LET mid == (lo + hi) \div 2
       IN IF mid * mid <= n THEN SqrtSearch(n, mid, hi) ELSE SqrtSearch(n, lo, mid)

\* Math.sqrt on the grid: the floor of the square root
ISqrt(n) == SqrtSearch(n, 0, 46340)

----------------------------------------------------------------------------
(* THREE.Vector3 *)

Zero3 == <<0, 0, 0>>

VSub(a, b) == <<a[1] - b[1], a[2] - b[2], a[3] - b[3]>>

VAdd(a, b) == <<a[1] + b[1], a[2] + b[2], a[3] + b[3]>>

Dot(a, b) == a[1] * b[1] + a[2] * b[2] + a[3] * b[3]

Cross(a, b) == <<a[2] * b[3] - a[3] * b[2],
                 a[3] * b[1] - a[1] * b[3],
                 a[1] * b[2] - a[2] * b[1]>>

DistanceTo(a, b) == ISqrt(Dot(VSub(a, b), VSub(a, b)))

\* Vector3.normalize: divideScalar(length() || 1); the result has length Q
Normalize(v) ==
  LET len == ISqrt(Dot(v, v))
  IN IF len = 0 THEN Zero3
     ELSE <<(v[1] * Q) \div len, (v[2] * Q) \div len, (v[3] * Q) \div len>>

----------------------------------------------------------------------------
(* The program's constants *)

Tools == {"MOVE", "SCULPT", "SMOOTH", "PINCH"}

\* the per-call damping of Sculpt, Smooth and Pinch is 0.01 = 1 / DampDen
DampDen == 100

\* the per-call damping of Move is 0.02 = MoveNum / DampDen
MoveNum == 2

\* `scale = 2 / maxDimension`
TargetSize == 2

DefaultBrushSize == 20

DefaultBrushStrength == 5

\* the min and max attributes of the two range inputs
MinBrushSize == 5

MaxBrushSize == 50

MinBrushStrength == 1

MaxBrushStrength == 20

\* mutant of RangeValue: the input reports the gesture as it is
RangeValueFree(raw, min, max) == raw

\* the value of an <input type="range" min max>: the position the user drags
\* the thumb to, kept within the track
RangeValue(raw, min, max) ==
  IF raw < min THEN min ELSE IF raw > max THEN max ELSE raw

\* the range inputs of the toolbar: 0.05..0.5 and 1..20
SliderSizes == {20, 50}

SliderStrengths == {5, 20}

\* what a caller of EditableScene may pass as the brushSize and brushStrength props
PropSizes == {-20, 0, 20}

\* where the user may drag the thumbs to, the ends of the track and past them
DragSizes == {-20, 0, 5, 80}

DragStrengths == {-5, 0, 1, 40}

PropStrengths == {-5, 0, 250}

Cursors == {<<0, 0>>, <<1, 0>>}

\* cursors that differ horizontally and vertically
MoveCursors == {<<0, 0>>, <<1, 0>>, <<0, 1>>}

----------------------------------------------------------------------------
(* What the loaders deliver *)

Files == {"quad", "nomesh"}

\* a file whose mesh is not flat: its vertex normals differ from one another
FoldFiles == {"fold"}

\* files for the loads that overlap: two meshes that differ, a scene without a
\* mesh, and a mesh whose position attribute has no vertex
LoadFiles == {"quad", "fold", "nomesh", "empty"}

HasMesh(f) == f # "nomesh"

FilePositions(f) ==
  IF f = "quad" THEN << <<0, 0, 0>>, <<10, 0, 0>>, <<0, 30, 0>>, <<40, 30, 0>> >>
  ELSE IF f = "fold" THEN << <<0, 0, 0>>, <<10, 0, 0>>, <<0, 30, 0>>, <<10, 30, 40>> >>
  ELSE << >>

FileIndex(f) ==
  IF f \in {"quad", "fold"} THEN << <<1, 2, 3>>, <<2, 4, 3>> >>
  ELSE << >>

----------------------------------------------------------------------------
(* Box3, Matrix4 *)

RECURSIVE SeqMax(_, _, _)
SeqMax(pos, c, n) ==
  IF n = 1 THEN pos[1][c]
  ELSE LET m == SeqMax(pos, c, n - 1) IN IF pos[n][c] > m THEN pos[n][c] ELSE m

RECURSIVE SeqMin(_, _, _)
SeqMin(pos, c, n) ==
  IF n = 1 THEN pos[1][c]
  ELSE LET m == SeqMin(pos, c, n - 1) IN IF pos[n][c] < m THEN pos[n][c] ELSE m

BoxMax(pos) == [c \in 1..3 |-> SeqMax(pos, c, Len(pos))]

BoxMin(pos) == [c \in 1..3 |-> SeqMin(pos, c, Len(pos))]

Max3(a, b, c) == IF a >= b /\ a >= c THEN a ELSE IF b >= c THEN b ELSE c

\* `2 / maxDimension` when maxDimension is 0
Infinity == 1000000

\* the transform processLoadedModel gives the loaded object; the box of an
\* object without a vertex is empty, and its center and its size are zero
LoadedMatrix(pos) ==
  IF pos = << >> THEN [scale |-> Infinity, position |-> Zero3]
  ELSE
  LET lo == BoxMin(pos)
      hi == BoxMax(pos)
      size == VSub(hi, lo)
      center == <<(lo[1] + hi[1]) \div 2, (lo[2] + hi[2]) \div 2, (lo[3] + hi[3]) \div 2>>
      maxDimension == Max3(size[1], size[2], size[3])
  IN [scale |-> (TargetSize * Q) \div maxDimension, position |-> VSub(Zero3, center)]

IdentityMatrix == [scale |-> 1, position |-> Zero3]

\* Vector3.applyMatrix4(matrixWorld)
LocalToWorld(p, m) ==
  <<m.scale * p[1] + m.position[1], m.scale * p[2] + m.position[2],
    m.scale * p[3] + m.position[3]>>

\* point.clone().applyMatrix4(inverseMatrix)
WorldToLocal(w, m) ==
  <<DivAway(w[1] - m.position[1], m.scale), DivAway(w[2] - m.position[2], m.scale),
    DivAway(w[3] - m.position[3], m.scale)>>

\* tempNormal.transformDirection(inverseMatrix): the upper 3x3 of the inverse
\* (a division by the scale, which is positive), then normalize
TransformDirection(n, m) == Normalize(<<n[1] * Sgn(m.scale), n[2] * Sgn(m.scale), n[3] * Sgn(m.scale)>>)

----------------------------------------------------------------------------
(* BufferGeometry.computeVertexNormals, indexed geometry *)

FaceCross(pos, f) == Cross(VSub(pos[f[3]], pos[f[2]]), VSub(pos[f[1]], pos[f[2]]))

RECURSIVE SumFaces(_, _, _, _)
SumFaces(pos, idx, i, k) ==
  IF k = 0 THEN Zero3
  ELSE LET f == idx[k]
           rest == SumFaces(pos, idx, i, k - 1)
       IN IF i \in {f[1], f[2], f[3]} THEN VAdd(rest, FaceCross(pos, f)) ELSE rest

ComputeVertexNormals(pos, idx) ==
  [i \in 1..Len(pos) |-> Normalize(SumFaces(pos, idx, i, Len(idx)))]

\* intersection.face.normal, as the raycaster computes it for the face it hit
FaceNormal(pos, f) == Normalize(FaceCross(pos, f))

----------------------------------------------------------------------------
(* sculptMesh *)

\* mutants of InBrush: the diameter for the radius; squared distances compared
InBrushDiameter(dist, size) == dist < 2 * size

InBrushSquared(dist, size) == dist * dist < size * size

\* `if (dist < brushSize)`
InBrush(dist, size) == dist < size

\* mutant of Falloff: `dist / brushSize`, weakest at the centre
FalloffInverted(dist, size) == [num |-> dist, den |-> size]

\* `1 - dist / brushSize`, as a fraction
Falloff(dist, size) == [num |-> size - dist, den |-> size]

\* `brushStrength * falloff * 0.01` (mul = 1) and `brushStrength * falloff * 0.02` (mul = MoveNum)
Factor(strength, fall, mul) == [num |-> strength * fall.num * mul, den |-> fall.den * DampDen]

\* Vector3.addScaledVector(w, k)
AddScaledVector(v, w, k) ==
  <<v[1] + DivAway(w[1] * k.num, k.den), v[2] + DivAway(w[2] * k.num, k.den),
    v[3] + DivAway(w[3] * k.num, k.den)>>

\* mutant of Lerp: the difference is taken the other way round
LerpAway(v, p, alpha) == AddScaledVector(v, VSub(v, p), alpha)

\* Vector3.lerp(p, alpha): this += (p - this) * alpha
Lerp(v, p, alpha) == AddScaledVector(v, VSub(p, v), alpha)

\* `new THREE.Vector2(mouse.x - lastMousePosition.x, mouse.y - lastMousePosition.y)`
MouseDelta(m, last) == <<m[1] - last[1], m[2] - last[2]>>

\* mutant of MoveVertex: the horizontal cursor delta also moves the vertex in depth
MoveVertexDepth(v, delta, k) ==
  <<v[1] + DivAway(delta[1] * Q * k.num, CursorQ * k.den),
    v[2] - DivAway(delta[2] * Q * k.num, CursorQ * k.den),
    v[3] + DivAway(delta[1] * Q * k.num, CursorQ * k.den)>>

\* case Tool.MOVE: x += mouseDelta.x * moveFactor, y -= mouseDelta.y * moveFactor
MoveVertex(v, delta, k) ==
  <<v[1] + DivAway(delta[1] * Q * k.num, CursorQ * k.den),
    v[2] - DivAway(delta[2] * Q * k.num, CursorQ * k.den),
    v[3]>>

\* mutant of SculptCase: a default direction stands in for a missing normal
SculptCaseDefaultUp(v, normal, m, k) ==
  AddScaledVector(v, IF normal # Undefined THEN TransformDirection(normal, m) ELSE <<0, 0, Q>>, k)

\* case Tool.SCULPT
SculptCase(v, normal, m, k) ==
  IF normal # Undefined THEN AddScaledVector(v, TransformDirection(normal, m), k) ELSE v

\* the body of `switch(activeTool)`
ToolEffect(tool, v, localPoint, normal, m, strength, fall, delta) ==
  CASE tool = "SCULPT" -> SculptCase(v, normal, m, Factor(strength, fall, 1))
    [] tool = "SMOOTH" -> Lerp(v, localPoint, Factor(strength, fall, 1))
    [] tool = "PINCH"  -> AddScaledVector(v, VSub(localPoint, v), Factor(strength, fall, 1))
    [] tool = "MOVE"   -> MoveVertex(v, delta, Factor(strength, fall, MoveNum))

\* one iteration of the vertex loop
SculptVertex(v, localPoint, normal, m, tool, size, strength, delta) ==
  LET dist == DistanceTo(v, localPoint)
  IN IF InBrush(dist, size)
     THEN ToolEffect(tool, v, localPoint, normal, m, strength, Falloff(dist, size), delta)
     ELSE v

\* mutant of SculptPositions: every vertex is displaced along its own normal
SculptPositionsOwnNormal(pos, point, normal, m, tool, size, strength, delta) ==
  LET localPoint == WorldToLocal(point, m)
  IN [i \in 1..Len(pos) |->
        SculptVertex(pos[i], localPoint,
                     IF normal # Undefined THEN normals[i] ELSE normal,
                     m, tool, size, strength, delta)]

\* the vertex loop of sculptMesh: the new position array
SculptPositions(pos, point, normal, m, tool, size, strength, delta) ==
  LET localPoint == WorldToLocal(point, m)
  IN [i \in 1..Len(pos) |->
        SculptVertex(pos[i], localPoint, normal, m, tool, size, strength, delta)]

\* mutant of SculptNormals: the normals are not recomputed
SculptNormalsStale(newPos, idx, oldNormals) == oldNormals

\* `mesh.geometry.computeVertexNormals()` at the end of sculptMesh
SculptNormals(newPos, idx, oldNormals) == ComputeVertexNormals(newPos, idx)

\* mutant of ResetPositions: the snapshot is not copied back
ResetPositionsSkip(pos, original) == pos

\* resetMesh: `posAttr.array.set(originalVertices)`
ResetPositions(pos, original) == original

\* `meshRef.geometry.computeVertexNormals()` at the end of resetMesh
ResetNormals(newPos, idx, oldNormals) == ComputeVertexNormals(newPos, idx)

\* mutant of Snapshot: the snapshot is taken from the mesh that was the sculpt
\* target before the load
SnapshotOfPrevious(pos) == positions

\* `setOriginalVertices(new Float32Array(positions))`
Snapshot(pos) == pos

\* mutant of SnapshotAfterWrite: the state holds the attribute's own array
SnapshotAliased(original, newPos) == ArrayOf(newPos)

\* the snapshot is a copy, so `posAttr.setXYZ` does not write it
SnapshotAfterWrite(original, newPos) == original

----------------------------------------------------------------------------
(* The state after construction *)

NoHit == [hit |-> FALSE, point |-> Zero3, normal |-> Undefined]

\* the record of a handler that is not a brush application
Handler(name) ==
  [op |-> name, pre |-> << >>, point |-> Zero3, normal |-> Undefined,
   tool |-> "SCULPT", size |-> 0, strength |-> 0, delta |-> <<0, 0>>,
   cursor |-> <<0, 0>>, prevCursor |-> <<0, 0>>, sample |-> "detached"]

\* where a brush application stands in its stroke, from the handler before it:
\* "first" right after the pointer down that began the stroke, "second" right
\* after a first, "later" right after a second or later one, "restored" right
\* after a reset that undid a deformation, "detached" when another handler ran
\* in between
SampleAfter(before) ==
  IF before.op = "pointerDown" THEN "first"
  ELSE IF before.op = "resetMesh" /\ before.pre # positions THEN "restored"
  ELSE IF before.op = "sculptMesh" /\ before.sample = "first" THEN "second"
  ELSE IF before.op = "sculptMesh" /\ before.sample \in {"second", "later"} THEN "later"
  ELSE "detached"

Init ==
  /\ modelUrl = NULL
  /\ nextUrl = 0
  /\ pending = {}
  /\ isLoading = FALSE
  /\ meshRef = NoMesh
  /\ positions = << >>
  /\ normals = << >>
  /\ index = << >>
  /\ matrixWorld = IdentityMatrix
  /\ originalVertices = NoArray
  /\ brushPosition = Zero3
  /\ isModifying = FALSE
  /\ lastMousePosition = <<0, 0>>
  /\ capturedLast = <<0, 0>>
  /\ capturedBrush = [size |-> DefaultBrushSize, strength |-> DefaultBrushStrength]
  /\ mouse = <<0, 0>>
  /\ activeTool = "SCULPT"
  /\ brushSize = DefaultBrushSize
  /\ brushStrength = DefaultBrushStrength
  /\ edits = 0
  /\ call = Handler("none")
  /\ uploader = [isLoading |-> FALSE, uploadProgress |-> 0, readers |-> {}, log |-> << >>]

----------------------------------------------------------------------------
(* The pointer effect *)

\* mutant of PointerEffect: the handlers are attached once and never again
PointerEffectOnce(depsChanged, newLast) == capturedLast

\* The effect runs again after a render in which one of its dependencies
\* (isModifying, activeTool, brushSize, brushStrength, meshRef) changed, and the
\* handlers it attaches then see the lastMousePosition of that render.
PointerEffect(depsChanged, newLast) == IF depsChanged THEN newLast ELSE capturedLast

\* the brushSize and brushStrength the handlers see after a render: those of
\* that render when the effect ran again
PointerEffectBrush(depsChanged, size, strength) ==
  IF depsChanged THEN [size |-> size, strength |-> strength] ELSE capturedBrush

----------------------------------------------------------------------------
(* Loading *)

\* handleFileUpload, and the load effect that the new modelUrl triggers
HandleFileUpload(f) ==
  /\ UNCHANGED uploader
  /\ nextUrl' = nextUrl + 1
  /\ modelUrl' = nextUrl + 1
  /\ isLoading' = TRUE
  /\ pending' = pending \cup {[url |-> nextUrl + 1, file |-> f]}
  /\ IF meshRef # NoMesh
     THEN /\ meshRef' = NoMesh
          /\ originalVertices' = NoArray
          /\ positions' = << >>
          /\ normals' = << >>
          /\ index' = << >>
          /\ matrixWorld' = IdentityMatrix
     ELSE UNCHANGED <<meshRef, originalVertices, positions, normals, index, matrixWorld>>
  /\ UNCHANGED <<brushPosition, isModifying, lastMousePosition, capturedLast,
                 capturedBrush, mouse, activeTool, brushSize, brushStrength, edits>>
  /\ call' = Handler("none")

\* handleFileUpload, explored up to MaxLoads uploads
Upload(f) ==
  /\ nextUrl < MaxLoads
  /\ HandleFileUpload(f)

\* the loader's onLoad callback: processLoadedModel
LoadDone(p) ==
  /\ UNCHANGED uploader
  /\ p \in pending
  /\ pending' = pending \ {p}
  /\ isLoading' = FALSE
  /\ IF HasMesh(p.file)
     THEN /\ positions' = FilePositions(p.file)
          /\ index' = FileIndex(p.file)
          /\ normals' = ComputeVertexNormals(FilePositions(p.file), FileIndex(p.file))
          /\ matrixWorld' = LoadedMatrix(FilePositions(p.file))
          /\ originalVertices' = ArrayOf(Snapshot(FilePositions(p.file)))
          /\ meshRef' = p
          /\ capturedLast' = PointerEffect(TRUE, lastMousePosition)
          /\ capturedBrush' = PointerEffectBrush(TRUE, brushSize, brushStrength)
     ELSE UNCHANGED <<positions, index, normals, matrixWorld, originalVertices, meshRef,
                      capturedLast, capturedBrush>>
  /\ call' = Handler("loadDone")
  /\ UNCHANGED <<modelUrl, nextUrl, brushPosition, isModifying, lastMousePosition, mouse,
                 activeTool, brushSize, brushStrength, edits>>

\* the loader's onError callback
LoadError(p) ==
  /\ UNCHANGED uploader
  /\ p \in pending
  /\ pending' = pending \ {p}
  /\ isLoading' = FALSE
  /\ UNCHANGED <<modelUrl, nextUrl, meshRef, positions, normals, index, matrixWorld,
                 originalVertices, brushPosition, isModifying, lastMousePosition,
                 capturedLast, capturedBrush, mouse, activeTool, brushSize,
                 brushStrength, edits>>
  /\ call' = Handler("none")

\* the Clear Model button: setModelUrl(null); the load effect returns at once
ClearModel ==
  /\ UNCHANGED uploader
  /\ modelUrl # NULL
  /\ modelUrl' = NULL
  /\ UNCHANGED <<nextUrl, pending, isLoading, meshRef, positions, normals, index,
                 matrixWorld, originalVertices, brushPosition, isModifying,
                 lastMousePosition, capturedLast, capturedBrush, mouse, activeTool,
                 brushSize, brushStrength, edits>>
  /\ call' = Handler("none")

----------------------------------------------------------------------------
(* The pointer handlers; they are attached only while meshRef is set *)

\* the vertices the ray may hit in an exploration
HitVertices == {1}

\* the first face of the index that has vertex i
FirstFace(idx, i) ==
  idx[CHOOSE k \in 1..Len(idx) :
        /\ i \in {idx[k][1], idx[k][2], idx[k][3]}
        /\ \A j \in 1..(k - 1) : i \notin {idx[j][1], idx[j][2], idx[j][3]}]

\* raycaster.intersectObject(meshRef): nothing, or a point of the surface with
\* the normal of the face it lies on (`intersection.face?.normal` may be undefined)
Intersections ==
  {NoHit} \cup
  {[hit |-> TRUE, point |-> LocalToWorld(positions[i], matrixWorld), normal |-> n] :
     i \in HitVertices \cap (1..Len(positions)),
     n \in {Undefined}} \cup
  {[hit |-> TRUE, point |-> LocalToWorld(positions[i], matrixWorld),
    normal |-> FaceNormal(positions, FirstFace(index, i))] :
     i \in HitVertices \cap (1..Len(positions))}

\* mutant of ApplyBrush: the brush is applied on every move of a stroke
ApplyBrushOffMesh(hit, modifying) == modifying

\* mutant of ApplyBrush: the brush is applied on every intersection
ApplyBrushOnHit(hit, modifying) == hit

\* `if (intersects.length > 0)` and, inside it, `if (isModifying)`
ApplyBrush(hit, modifying) == hit /\ modifying

\* handlePointerMove, with the call of sculptMesh when a stroke is in progress
HandlePointerMove(c, x) ==
  /\ UNCHANGED uploader
  /\ meshRef # NoMesh
  /\ mouse' = c
  /\ brushPosition' = IF x.hit THEN x.point ELSE brushPosition
  /\ IF ApplyBrush(x.hit, isModifying)
     THEN LET delta == MouseDelta(c, capturedLast)
              newPos == SculptPositions(positions, x.point, x.normal, matrixWorld,
                                        activeTool, capturedBrush.size,
                                        capturedBrush.strength, delta)
          IN /\ edits' = IF newPos # positions THEN edits + 1 ELSE edits
             /\ positions' = newPos
             /\ normals' = SculptNormals(newPos, index, normals)
             /\ originalVertices' = SnapshotAfterWrite(originalVertices, newPos)
             /\ lastMousePosition' = c
             /\ call' = [op |-> "sculptMesh", pre |-> positions,
                         point |-> WorldToLocal(x.point, matrixWorld),
                         normal |-> x.normal, tool |-> activeTool,
                         size |-> capturedBrush.size,
                         strength |-> capturedBrush.strength,
                         delta |-> delta, cursor |-> c,
                         prevCursor |-> lastMousePosition, sample |-> SampleAfter(call)]
     ELSE /\ call' = Handler("none")
          /\ UNCHANGED <<positions, normals, originalVertices, lastMousePosition, edits>>
  /\ capturedLast' = PointerEffect(FALSE, lastMousePosition')
  /\ capturedBrush' = PointerEffectBrush(FALSE, brushSize, brushStrength)
  /\ UNCHANGED <<modelUrl, nextUrl, pending, isLoading, meshRef, index, matrixWorld,
                 isModifying, activeTool, brushSize, brushStrength>>

\* handlePointerMove, explored up to MaxEdits deformations of the loaded mesh
PointerMove(c, x) ==
  /\ HandlePointerMove(c, x)
  /\ positions' # positions => edits < MaxEdits

\* mutant of PointerDown: every button begins a stroke
PointerDownAnyButton(button) ==
  /\ UNCHANGED uploader
  /\ meshRef # NoMesh
  /\ isModifying' = TRUE
  /\ lastMousePosition' = mouse
  /\ capturedLast' = PointerEffect(isModifying' # isModifying, lastMousePosition')
  /\ capturedBrush' = PointerEffectBrush(isModifying' # isModifying, brushSize, brushStrength)
  /\ UNCHANGED <<modelUrl, nextUrl, pending, isLoading, meshRef, positions, normals,
                 index, matrixWorld, originalVertices, brushPosition, mouse, activeTool,
                 brushSize, brushStrength, edits>>
  /\ call' = IF ~isModifying THEN Handler("pointerDown") ELSE Handler("none")

\* mutant of PointerDown: the cursor of the pointer down is not recorded
PointerDownNoCursor(button) ==
  /\ UNCHANGED uploader
  /\ meshRef # NoMesh
  /\ isModifying' = IF button = 0 THEN TRUE ELSE isModifying
  /\ capturedLast' = PointerEffect(isModifying' # isModifying, lastMousePosition)
  /\ capturedBrush' = PointerEffectBrush(isModifying' # isModifying, brushSize, brushStrength)
  /\ UNCHANGED <<modelUrl, nextUrl, pending, isLoading, meshRef, positions, normals,
                 index, matrixWorld, originalVertices, brushPosition, lastMousePosition,
                 mouse, activeTool, brushSize, brushStrength, edits>>
  /\ call' = IF button = 0 /\ ~isModifying THEN Handler("pointerDown") ELSE Handler("none")

\* handlePointerDown
PointerDown(button) ==
  /\ UNCHANGED uploader
  /\ meshRef # NoMesh
  /\ IF button = 0
     THEN /\ isModifying' = TRUE
          /\ lastMousePosition' = mouse
     ELSE UNCHANGED <<isModifying, lastMousePosition>>
  /\ capturedLast' = PointerEffect(isModifying' # isModifying, lastMousePosition')
  /\ capturedBrush' = PointerEffectBrush(isModifying' # isModifying, brushSize, brushStrength)
  /\ UNCHANGED <<modelUrl, nextUrl, pending, isLoading, meshRef, positions, normals,
                 index, matrixWorld, originalVertices, brushPosition, mouse, activeTool,
                 brushSize, brushStrength, edits>>
  /\ call' = IF button = 0 /\ ~isModifying THEN Handler("pointerDown") ELSE Handler("none")

\* mutant of PointerUp: the end of a stroke forgets the last cursor
PointerUpClears(event) ==
  /\ UNCHANGED uploader
  /\ meshRef # NoMesh
  /\ isModifying' = FALSE
  /\ lastMousePosition' = <<0, 0>>
  /\ capturedLast' = PointerEffect(isModifying, lastMousePosition')
  /\ capturedBrush' = PointerEffectBrush(isModifying, brushSize, brushStrength)
  /\ UNCHANGED <<modelUrl, nextUrl, pending, isLoading, meshRef, positions, normals,
                 index, matrixWorld, originalVertices, brushPosition, mouse, activeTool,
                 brushSize, brushStrength, edits>>
  /\ call' = IF isModifying THEN Handler("pointerUp") ELSE Handler("none")

\* handlePointerUp, attached to pointerup and to pointerleave
PointerUp(event) ==
  /\ UNCHANGED uploader
  /\ meshRef # NoMesh
  /\ isModifying' = FALSE
  /\ capturedLast' = PointerEffect(isModifying, lastMousePosition)
  /\ capturedBrush' = PointerEffectBrush(isModifying, brushSize, brushStrength)
  /\ UNCHANGED <<modelUrl, nextUrl, pending, isLoading, meshRef, positions, normals,
                 index, matrixWorld, originalVertices, brushPosition, lastMousePosition,
                 mouse, activeTool, brushSize, brushStrength, edits>>
  /\ call' = IF isModifying THEN Handler("pointerUp") ELSE Handler("none")

----------------------------------------------------------------------------
(* The toolbar *)

\* ToolButton onClick: setActiveTool(tool)
SetActiveTool(t) ==
  /\ UNCHANGED uploader
  /\ activeTool' = t
  /\ capturedLast' = PointerEffect(meshRef # NoMesh /\ t # activeTool, lastMousePosition)
  /\ capturedBrush' = PointerEffectBrush(meshRef # NoMesh /\ t # activeTool, brushSize,
                                         brushStrength)
  /\ UNCHANGED <<modelUrl, nextUrl, pending, isLoading, meshRef, positions, normals,
                 index, matrixWorld, originalVertices, brushPosition, isModifying,
                 lastMousePosition, mouse, brushSize, brushStrength, edits>>
  /\ call' = Handler("none")

\* EditableScene is rendered with the brushSize prop v
SceneBrushSize(v) ==
  /\ UNCHANGED uploader
  /\ brushSize' = v
  /\ capturedLast' = PointerEffect(meshRef # NoMesh /\ brushSize' # brushSize,
                                   lastMousePosition)
  /\ capturedBrush' = PointerEffectBrush(meshRef # NoMesh /\ brushSize' # brushSize,
                                         brushSize', brushStrength)
  /\ UNCHANGED <<modelUrl, nextUrl, pending, isLoading, meshRef, positions, normals,
                 index, matrixWorld, originalVertices, brushPosition, isModifying,
                 lastMousePosition, mouse, activeTool, brushStrength, edits>>
  /\ call' = Handler("none")

\* the size slider's onChange: setBrushSize(parseFloat(e.target.value))
SetBrushSize(raw) == SceneBrushSize(RangeValue(raw, MinBrushSize, MaxBrushSize))

\* EditableScene is rendered with the brushStrength prop v
SceneBrushStrength(v) ==
  /\ UNCHANGED uploader
  /\ brushStrength' = v
  /\ capturedLast' = PointerEffect(meshRef # NoMesh /\ brushStrength' # brushStrength,
                                   lastMousePosition)
  /\ capturedBrush' = PointerEffectBrush(meshRef # NoMesh /\ brushStrength' # brushStrength,
                                         brushSize, brushStrength')
  /\ UNCHANGED <<modelUrl, nextUrl, pending, isLoading, meshRef, positions, normals,
                 index, matrixWorld, originalVertices, brushPosition, isModifying,
                 lastMousePosition, mouse, activeTool, brushSize, edits>>
  /\ call' = Handler("none")

\* the strength slider's onChange: setBrushStrength(parseFloat(e.target.value))
SetBrushStrength(raw) ==
  SceneBrushStrength(RangeValue(raw, MinBrushStrength, MaxBrushStrength))

\* mutant of ResetMesh: the reset also takes the mesh back to the identity
\* placement
ResetMeshPlacement ==
  /\ UNCHANGED uploader
  /\ meshRef # NoMesh
  /\ originalVertices # NoArray
  /\ positions' = ResetPositions(positions, originalVertices[1])
  /\ normals' = ResetNormals(positions', index, normals)
  /\ matrixWorld' = IdentityMatrix
  /\ call' = [Handler("resetMesh") EXCEPT !.pre = positions]
  /\ edits' = 0
  /\ UNCHANGED <<modelUrl, nextUrl, pending, isLoading, meshRef, index,
                 originalVertices, brushPosition, isModifying, lastMousePosition,
                 capturedLast, capturedBrush, mouse, activeTool, brushSize,
                 brushStrength>>

\* mutant of ResetMesh: the reset also ends the stroke in progress
ResetMeshEndsStroke ==
  /\ UNCHANGED uploader
  /\ meshRef # NoMesh
  /\ originalVertices # NoArray
  /\ positions' = ResetPositions(positions, originalVertices[1])
  /\ normals' = ResetNormals(positions', index, normals)
  /\ call' = [Handler("resetMesh") EXCEPT !.pre = positions]
  /\ edits' = 0
  /\ isModifying' = FALSE
  /\ capturedLast' = PointerEffect(isModifying, lastMousePosition)
  /\ capturedBrush' = PointerEffectBrush(isModifying, brushSize, brushStrength)
  /\ UNCHANGED <<modelUrl, nextUrl, pending, isLoading, meshRef, index, matrixWorld,
                 originalVertices, brushPosition, lastMousePosition, mouse, activeTool,
                 brushSize, brushStrength>>

\* resetMesh
ResetMesh ==
  /\ UNCHANGED uploader
  /\ meshRef # NoMesh
  /\ originalVertices # NoArray
  /\ positions' = ResetPositions(positions, originalVertices[1])
  /\ normals' = ResetNormals(positions', index, normals)
  /\ call' = [Handler("resetMesh") EXCEPT !.pre = positions]
  /\ edits' = 0
  /\ UNCHANGED <<modelUrl, nextUrl, pending, isLoading, meshRef, index, matrixWorld,
                 originalVertices, brushPosition, isModifying, lastMousePosition,
                 capturedLast, capturedBrush, mouse, activeTool, brushSize,
                 brushStrength>>

----------------------------------------------------------------------------
(* The application: EditableScene under the SimpleViewer toolbar *)

Next ==
  \/ \E f \in Files : Upload(f)
  \/ \E p \in pending : LoadDone(p)
  \/ \E p \in pending : LoadError(p)
  \/ ClearModel
  \/ \E c \in Cursors : \E x \in Intersections : PointerMove(c, x)
  \/ \E b \in {0, 2} : PointerDown(b)
  \/ \E e \in {"pointerup", "pointerleave"} : PointerUp(e)
  \/ \E t \in Tools : SetActiveTool(t)
  \/ \E v \in SliderSizes : SetBrushSize(v)
  \/ \E v \in SliderStrengths : SetBrushStrength(v)
  \/ ResetMesh

Spec == Init /\ [][Next]_vars

(* EditableScene under a caller that passes any number as brushSize and
   brushStrength *)

NextScene ==
  \/ \E f \in Files : Upload(f)
  \/ \E p \in pending : LoadDone(p)
  \/ \E p \in pending : LoadError(p)
  \/ ClearModel
  \/ \E c \in Cursors : \E x \in Intersections : PointerMove(c, x)
  \/ \E b \in {0, 2} : PointerDown(b)
  \/ \E e \in {"pointerup", "pointerleave"} : PointerUp(e)
  \/ \E t \in Tools : SetActiveTool(t)
  \/ \E v \in PropSizes : SceneBrushSize(v)
  \/ \E v \in PropStrengths : SceneBrushStrength(v)
  \/ ResetMesh

SpecScene == Init /\ [][NextScene]_vars

----------------------------------------------------------------------------
(* SculptableModel under a caller that passes fileUrl, tool, brushSize and
   brushStrength.  Its pointer handlers and its sculptMesh are those of
   EditableScene, line for line; its pointer effect depends on loadedScene,
   isModifying and tool, and not on brushSize and brushStrength.  meshRef
   stands for pointerMesh.current, modelUrl for the fileUrl prop, and
   originalVertices for the entry of that mesh in the originalVertices map. *)

\* `scale = 1.5 / maxDimension` = SculptableNum / (SculptableDen * maxDimension)
SculptableNum == 15

SculptableDen == 10

\* the transform processLoadedModel of SculptableModel gives the loaded scene
SculptableMatrix(pos) ==
  LET lo == BoxMin(pos)
      hi == BoxMax(pos)
      size == VSub(hi, lo)
      centerY == (lo[2] + hi[2]) \div 2
      maxDimension == Max3(size[1], size[2], size[3])
      scale == (SculptableNum * Q) \div (SculptableDen * maxDimension)
  IN [scale |-> scale, position |-> <<0, 0 - centerY * scale, 0>>]

\* the caller passes a new fileUrl; the load effect starts a loader
SetFileUrl(f) ==
  /\ UNCHANGED uploader
  /\ nextUrl < MaxLoads
  /\ nextUrl' = nextUrl + 1
  /\ modelUrl' = nextUrl + 1
  /\ pending' = pending \cup {[url |-> nextUrl + 1, file |-> f]}
  /\ UNCHANGED <<isLoading, meshRef, positions, normals, index, matrixWorld,
                 originalVertices, brushPosition, isModifying, lastMousePosition,
                 capturedLast, capturedBrush, mouse, activeTool, brushSize,
                 brushStrength, edits>>
  /\ call' = Handler("none")

\* the loader's onLoad callback: processLoadedModel of SculptableModel; the new
\* loadedScene runs the pointer effect again when there is a pointer mesh
SculptableLoadDone(p) ==
  /\ UNCHANGED uploader
  /\ p \in pending
  /\ pending' = pending \ {p}
  /\ IF HasMesh(p.file)
     THEN /\ positions' = FilePositions(p.file)
          /\ index' = FileIndex(p.file)
          /\ normals' = ComputeVertexNormals(FilePositions(p.file), FileIndex(p.file))
          /\ matrixWorld' = SculptableMatrix(FilePositions(p.file))
          /\ originalVertices' = ArrayOf(Snapshot(FilePositions(p.file)))
          /\ meshRef' = p
     ELSE UNCHANGED <<positions, index, normals, matrixWorld, originalVertices, meshRef>>
  /\ capturedLast' = PointerEffect(meshRef' # NoMesh, lastMousePosition)
  /\ capturedBrush' = PointerEffectBrush(meshRef' # NoMesh, brushSize, brushStrength)
  /\ call' = Handler("loadDone")
  /\ UNCHANGED <<modelUrl, nextUrl, isLoading, brushPosition, isModifying,
                 lastMousePosition, mouse, activeTool, brushSize, brushStrength, edits>>

\* the loader's onError callback of SculptableModel: a console message
SculptableLoadError(p) ==
  /\ UNCHANGED uploader
  /\ p \in pending
  /\ pending' = pending \ {p}
  /\ UNCHANGED <<modelUrl, nextUrl, isLoading, meshRef, positions, normals, index,
                 matrixWorld, originalVertices, brushPosition, isModifying,
                 lastMousePosition, capturedLast, capturedBrush, mouse, activeTool,
                 brushSize, brushStrength, edits>>
  /\ call' = Handler("none")

\* the caller passes a new brushSize: a re-render, and the pointer effect does
\* not run
SetBrushSizeProp(v) ==
  /\ UNCHANGED uploader
  /\ brushSize' = v
  /\ UNCHANGED <<modelUrl, nextUrl, pending, isLoading, meshRef, positions, normals,
                 index, matrixWorld, originalVertices, brushPosition, isModifying,
                 lastMousePosition, capturedLast, capturedBrush, mouse, activeTool,
                 brushStrength, edits>>
  /\ call' = Handler("none")

\* the caller passes a new brushStrength: a re-render, and the pointer effect
\* does not run
SetBrushStrengthProp(v) ==
  /\ UNCHANGED uploader
  /\ brushStrength' = v
  /\ UNCHANGED <<modelUrl, nextUrl, pending, isLoading, meshRef, positions, normals,
                 index, matrixWorld, originalVertices, brushPosition, isModifying,
                 lastMousePosition, capturedLast, capturedBrush, mouse, activeTool,
                 brushSize, edits>>
  /\ call' = Handler("none")

\* resetModel of SculptableModel, for the one mesh of the scene
ResetModel ==
  /\ UNCHANGED uploader
  /\ meshRef # NoMesh
  /\ originalVertices # NoArray
  /\ positions' = ResetPositions(positions, originalVertices[1])
  /\ normals' = ResetNormals(positions', index, normals)
  /\ call' = [Handler("resetMesh") EXCEPT !.pre = positions]
  /\ edits' = 0
  /\ UNCHANGED <<modelUrl, nextUrl, pending, isLoading, meshRef, index, matrixWorld,
                 originalVertices, brushPosition, isModifying, lastMousePosition,
                 capturedLast, capturedBrush, mouse, activeTool, brushSize,
                 brushStrength>>

NextSculptable ==
  \/ \E f \in Files : SetFileUrl(f)
  \/ \E p \in pending : SculptableLoadDone(p)
  \/ \E p \in pending : SculptableLoadError(p)
  \/ \E c \in Cursors : \E x \in Intersections : PointerMove(c, x)
  \/ \E b \in {0, 2} : PointerDown(b)
  \/ \E e \in {"pointerup", "pointerleave"} : PointerUp(e)
  \/ \E t \in Tools : SetActiveTool(t)
  \/ \E v \in SliderSizes : SetBrushSizeProp(v)
  \/ \E v \in SliderStrengths : SetBrushStrengthProp(v)
  \/ ResetModel

SpecSculptable == Init /\ [][NextSculptable]_vars

----------------------------------------------------------------------------
(* EditableScene under a caller that selects the Smooth tool before the first
   stroke and passes smoothing strengths up to the one that makes the factor 1
   at the contact point; the brush is applied again and again, at one contact
   point, up to MaxSmooths deformations. *)

SmoothStrengths == {5, 20, 100}

\* handlePointerMove while the tool is Smooth
PointerMoveSmooth(c, x) ==
  /\ activeTool = "SMOOTH"
  /\ HandlePointerMove(c, x)
  /\ positions' # positions => edits < MaxSmooths

NextSmooth ==
  \/ \E f \in Files : Upload(f)
  \/ \E p \in pending : LoadDone(p)
  \/ \E c \in Cursors : \E x \in Intersections : PointerMoveSmooth(c, x)
  \/ PointerDown(0)
  \/ SetActiveTool("SMOOTH")
  \/ \E v \in SliderSizes : SetBrushSize(v)
  \/ \E v \in SmoothStrengths : SetBrushStrength(v)

SpecSmooth == Init /\ [][NextSmooth]_vars

----------------------------------------------------------------------------
(* EditableScene with the tool it starts with, Sculpt, on a mesh that is not
   flat *)

NextSculpt ==
  \/ \E f \in FoldFiles : Upload(f)
  \/ \E p \in pending : LoadDone(p)
  \/ \E c \in Cursors : \E x \in Intersections : PointerMove(c, x)
  \/ \E b \in {0, 2} : PointerDown(b)
  \/ \E e \in {"pointerup", "pointerleave"} : PointerUp(e)
  \/ \E v \in SliderSizes : SetBrushSize(v)
  \/ \E v \in SliderStrengths : SetBrushStrength(v)
  \/ ResetMesh

SpecSculpt == Init /\ [][NextSculpt]_vars

----------------------------------------------------------------------------
(* NoseEditor: the page that owns fileUrl, tool, brushSize, brushStrength and
   isLoading, and renders SculptableModel inside its Canvas.  modelUrl stands
   for fileUrl, activeTool for tool, and pending for the loads that the load
   effect of a mounted SculptableModel has started. *)

\* DEFAULT_MODEL_URL, a URL that no upload yields
DefaultModelUrl == -1

\* `e.target.files?.[0]` of the file input: a file, or undefined
PickedFiles == {"quad", "nomesh", "undefined"}

\* the Canvas renders `isLoading ? <mesh> (a wireframe sphere) : <SculptableModel>`,
\* and the Canvas itself is rendered only while fileUrl is set
SculptableMounted(fileUrl, loading) == fileUrl # NULL /\ ~loading

\* the load effect of SculptableModel runs when the component is mounted with
\* a fileUrl, and when its fileUrl changes
NoseLoadEffect(fileUrl, loading, f) ==
  IF SculptableMounted(fileUrl, loading)
  THEN pending \cup {[url |-> fileUrl, file |-> f]}
  ELSE pending

\* handleUpload
HandleUpload(f) ==
  /\ UNCHANGED uploader
  /\ modelUrl = NULL
  /\ nextUrl < MaxRaceLoads
  /\ IF f = "undefined"
     THEN UNCHANGED <<isLoading, modelUrl, nextUrl, pending>>
     ELSE /\ isLoading' = TRUE
          /\ nextUrl' = nextUrl + 1
          /\ modelUrl' = nextUrl + 1
          /\ pending' = NoseLoadEffect(modelUrl', isLoading', f)
  /\ UNCHANGED <<meshRef, positions, normals, index, matrixWorld, originalVertices,
                 brushPosition, isModifying, lastMousePosition, capturedLast,
                 capturedBrush, mouse, activeTool, brushSize, brushStrength, edits>>
  /\ call' = Handler("handleUpload")

\* handleLoadDefault
HandleLoadDefault ==
  /\ UNCHANGED uploader
  /\ modelUrl = NULL
  /\ isLoading' = TRUE
  /\ modelUrl' = DefaultModelUrl
  /\ pending' = NoseLoadEffect(modelUrl', isLoading', "quad")
  /\ UNCHANGED <<nextUrl, meshRef, positions, normals, index, matrixWorld,
                 originalVertices, brushPosition, isModifying, lastMousePosition,
                 capturedLast, capturedBrush, mouse, activeTool, brushSize,
                 brushStrength, edits>>
  /\ call' = Handler("handleLoadDefault")

\* the New Model button: setFileUrl(null)
NewModel ==
  /\ UNCHANGED uploader
  /\ modelUrl # NULL
  /\ modelUrl' = NULL
  /\ UNCHANGED <<nextUrl, pending, isLoading, meshRef, positions, normals, index,
                 matrixWorld, originalVertices, brushPosition, isModifying,
                 lastMousePosition, capturedLast, capturedBrush, mouse, activeTool,
                 brushSize, brushStrength, edits>>
  /\ call' = Handler("none")

\* a ToolButton of the toolbar, which is rendered while fileUrl is set
NoseSetTool(t) ==
  /\ UNCHANGED uploader
  /\ modelUrl # NULL
  /\ activeTool' = t
  /\ UNCHANGED <<modelUrl, nextUrl, pending, isLoading, meshRef, positions, normals,
                 index, matrixWorld, originalVertices, brushPosition, isModifying,
                 lastMousePosition, capturedLast, capturedBrush, mouse, brushSize,
                 brushStrength, edits>>
  /\ call' = Handler("none")

\* the size slider of the toolbar
NoseSetBrushSize(raw) ==
  /\ UNCHANGED uploader
  /\ modelUrl # NULL
  /\ brushSize' = RangeValue(raw, MinBrushSize, MaxBrushSize)
  /\ UNCHANGED <<modelUrl, nextUrl, pending, isLoading, meshRef, positions, normals,
                 index, matrixWorld, originalVertices, brushPosition, isModifying,
                 lastMousePosition, capturedLast, capturedBrush, mouse, activeTool,
                 brushStrength, edits>>
  /\ call' = Handler("none")

\* the strength slider of the toolbar
NoseSetBrushStrength(raw) ==
  /\ UNCHANGED uploader
  /\ modelUrl # NULL
  /\ brushStrength' = RangeValue(raw, MinBrushStrength, MaxBrushStrength)
  /\ UNCHANGED <<modelUrl, nextUrl, pending, isLoading, meshRef, positions, normals,
                 index, matrixWorld, originalVertices, brushPosition, isModifying,
                 lastMousePosition, capturedLast, capturedBrush, mouse, activeTool,
                 brushSize, edits>>
  /\ call' = Handler("none")

\* the loader's onLoad callback of a mounted SculptableModel, which ends with
\* `onLoaded?.()`, that is handleModelLoaded: setIsLoading(false)
HandleModelLoaded(p) ==
  /\ UNCHANGED uploader
  /\ p \in pending
  /\ pending' = pending \ {p}
  /\ IF HasMesh(p.file)
     THEN /\ positions' = FilePositions(p.file)
          /\ index' = FileIndex(p.file)
          /\ normals' = ComputeVertexNormals(FilePositions(p.file), FileIndex(p.file))
          /\ matrixWorld' = SculptableMatrix(FilePositions(p.file))
          /\ originalVertices' = ArrayOf(Snapshot(FilePositions(p.file)))
          /\ meshRef' = p
     ELSE UNCHANGED <<positions, index, normals, matrixWorld, originalVertices, meshRef>>
  /\ capturedLast' = PointerEffect(meshRef' # NoMesh, lastMousePosition)
  /\ capturedBrush' = PointerEffectBrush(meshRef' # NoMesh, brushSize, brushStrength)
  /\ isLoading' = FALSE
  /\ call' = Handler("loadDone")
  /\ UNCHANGED <<modelUrl, nextUrl, brushPosition, isModifying, lastMousePosition,
                 mouse, activeTool, brushSize, brushStrength, edits>>

\* the handlers of the page; the load effect is part of the handler whose
\* render mounts SculptableModel
NextNose ==
  \/ \E f \in PickedFiles : HandleUpload(f)
  \/ HandleLoadDefault
  \/ NewModel
  \/ \E t \in Tools : NoseSetTool(t)
  \/ \E v \in DragSizes : NoseSetBrushSize(v)
  \/ \E v \in DragStrengths : NoseSetBrushStrength(v)

SpecNose == Init /\ [][NextNose]_vars

\* a load that a mounted SculptableModel has started ends with one of the
\* loader's callbacks
SpecNoseFair ==
  SpecNose /\ WF_vars(\E p \in pending : HandleModelLoaded(p))

----------------------------------------------------------------------------
(* SimpleViewer with the brush it starts with, under uploads that follow one
   another before the earlier load has ended *)

\* handleFileUpload, explored up to MaxRaceLoads uploads
UploadAgain(f) ==
  /\ nextUrl < MaxRaceLoads
  /\ HandleFileUpload(f)

NextLoad ==
  \/ \E f \in LoadFiles : UploadAgain(f)
  \/ \E p \in pending : LoadDone(p)
  \/ \E p \in pending : LoadError(p)
  \/ ClearModel
  \/ \E c \in Cursors : \E x \in Intersections : PointerMove(c, x)
  \/ PointerDown(0)
  \/ PointerUp("pointerup")
  \/ ResetMesh

SpecLoad == Init /\ [][NextLoad]_vars

----------------------------------------------------------------------------
(* SimpleViewer under drags of the two sliders to the ends of their tracks *)

NextBrush ==
  \/ \E f \in Files : Upload(f)
  \/ \E p \in pending : LoadDone(p)
  \/ \E c \in Cursors : \E x \in Intersections : PointerMove(c, x)
  \/ PointerDown(0)
  \/ PointerUp("pointerup")
  \/ \E v \in DragSizes : SetBrushSize(v)
  \/ \E v \in DragStrengths : SetBrushStrength(v)

SpecBrush == Init /\ [][NextBrush]_vars

----------------------------------------------------------------------------
(* SimpleViewer with the Move tool on the mesh that is not flat, under cursor
   moves in both directions *)

NextMove ==
  \/ \E f \in FoldFiles : Upload(f)
  \/ \E p \in pending : LoadDone(p)
  \/ \E c \in MoveCursors : \E x \in Intersections : PointerMove(c, x)
  \/ PointerDown(0)
  \/ PointerUp("pointerup")
  \/ SetActiveTool("MOVE")
  \/ \E v \in SliderSizes : SetBrushSize(v)

SpecMove == Init /\ [][NextMove]_vars

----------------------------------------------------------------------------
(* ModelUploader: a dropzone that reads the dropped file with a FileReader,
   parses it with OBJLoader and hands the model to the prop onModelLoaded, or a
   message to the prop onError.  The dropzone accepts drops while a read is in
   flight.  The two props are the caller's functions. *)

ViewerVars ==
  <<modelUrl, nextUrl, pending, isLoading, meshRef, positions, normals, index,
    matrixWorld, originalVertices, brushPosition, isModifying, lastMousePosition,
    capturedLast, capturedBrush, mouse, activeTool, brushSize, brushStrength, edits,
    call>>

\* what may be dropped: a file that is not an .obj, an .obj of length zero, an
\* .obj that OBJLoader.parse throws on, an .obj that parses to a group without
\* children, and an .obj with a mesh
DroppedFiles == {"model.txt", "empty.obj", "broken.obj", "nomesh.obj", "quad.obj"}

\* validateFile: an error message, or "null"
ValidateFile(f) ==
  IF f = "model.txt" THEN "Unsupported file format" ELSE "null"

\* `event.target?.result` of reader.onload
ReadResult(f) == IF f = "empty.obj" THEN "" ELSE f

\* the log with one more call of onModelLoaded for drop d
CallOnModelLoaded(log, d) ==
  [log EXCEPT ![d].onModelLoaded = @ + 1]

\* the log with one more call of onError for drop d
CallOnError(log, d) ==
  [log EXCEPT ![d].onError = @ + 1]

\* the log when the handler that called a prop for drop d returns
Returned(log, d, loading) ==
  [log EXCEPT ![d].isLoading = loading]

\* validateAndProcessModel: the log after it; `throws` says whether the
\* caller's onModelLoaded throws
ValidateAndProcessModel(model, d, throws) ==
  IF model \in {"nomesh.obj"}
  THEN CallOnError(uploader.log, d)
  ELSE IF throws
       THEN CallOnError(CallOnModelLoaded(uploader.log, d), d)
       ELSE CallOnModelLoaded(uploader.log, d)

\* onDrop with one accepted file
OnDrop(f) ==
  /\ Len(uploader.log) < MaxDrops
  /\ LET d == Len(uploader.log) + 1
         log == Append(uploader.log,
                       [file |-> f, onModelLoaded |-> 0, onError |-> 0,
                        isLoading |-> uploader.isLoading])
     IN IF ValidateFile(f) # "null"
        THEN uploader' = [uploader EXCEPT
                            !.log = Returned(CallOnError(log, d), d, uploader.isLoading)]
        ELSE uploader' = [uploader EXCEPT
                            !.isLoading = TRUE,
                            !.uploadProgress = 0,
                            !.readers = @ \cup {[drop |-> d, file |-> f]},
                            !.log = log]
  /\ UNCHANGED ViewerVars

\* reader.onprogress
ReaderProgress(r, percent) ==
  /\ r \in uploader.readers
  /\ uploader' = [uploader EXCEPT !.uploadProgress = percent]
  /\ UNCHANGED ViewerVars

\* reader.onload
ReaderLoad(r, throws) ==
  /\ r \in uploader.readers
  /\ IF ReadResult(r.file) = ""
     THEN uploader' = [uploader EXCEPT
                         !.isLoading = FALSE,
                         !.readers = @ \ {r},
                         !.log = Returned(CallOnError(uploader.log, r.drop), r.drop, FALSE)]
     ELSE IF r.file = "broken.obj"
     THEN uploader' = [uploader EXCEPT
                         !.isLoading = FALSE,
                         !.readers = @ \ {r},
                         !.log = Returned(CallOnError(uploader.log, r.drop), r.drop, FALSE)]
     ELSE uploader' = [uploader EXCEPT
                         !.isLoading = FALSE,
                         !.uploadProgress = 0,
                         !.readers = @ \ {r},
                         !.log = Returned(ValidateAndProcessModel(r.file, r.drop, throws),
                                          r.drop, FALSE)]
  /\ UNCHANGED ViewerVars

\* reader.onerror
ReaderError(r) ==
  /\ r \in uploader.readers
  /\ uploader' = [uploader EXCEPT
                    !.isLoading = FALSE,
                    !.uploadProgress = 0,
                    !.readers = @ \ {r},
                    !.log = Returned(CallOnError(uploader.log, r.drop), r.drop, FALSE)]
  /\ UNCHANGED ViewerVars

NextUploader ==
  \/ \E f \in DroppedFiles : OnDrop(f)
  \/ \E r \in uploader.readers : \E percent \in {50, 100} : ReaderProgress(r, percent)
  \/ \E r \in uploader.readers : \E throws \in BOOLEAN : ReaderLoad(r, throws)
  \/ \E r \in uploader.readers : ReaderError(r)

SpecUploader == Init /\ [][NextUploader]_vars

----------------------------------------------------------------------------
(* Properties.  `call` describes the handler that has just run. *)

Brushed == call.op = "sculptMesh"

SqDist(a, b) == Dot(VSub(a, b), VSub(a, b))

\* the vertex at v is at a distance >= the radius from the local contact point
Outside(v) == call.size <= 0 \/ SqDist(v, call.point) >= call.size * call.size

Moved(i) == positions[i] # call.pre[i]

\* C1. Locality: a brush application, whatever the tool, the radius and the
\* strength, leaves every vertex whose local distance to the local contact
\* point is >= the radius where it was.
C1_Locality ==
  Brushed =>
    /\ Len(positions) = Len(call.pre)
    /\ \A i \in 1..Len(positions) : Outside(call.pre[i]) => ~Moved(i)

\* a brush application moved one vertex and left alone one that lies exactly
\* on the sphere of the brush
C1_Witness ==
  /\ Brushed
  /\ \E i \in 1..Len(positions) :
       /\ SqDist(call.pre[i], call.point) = call.size * call.size
       /\ ~Moved(i)
  /\ \E j \in 1..Len(positions) : Moved(j)

\* C2. Reset restores and is idempotent: after a reset every position is the
\* one captured at load (the positions the loader delivered for this mesh), and
\* resetting again from there gives the same positions.
C2_ResetRestores ==
  call.op = "resetMesh" =>
    /\ positions = originalVertices[1]
    /\ positions = FilePositions(meshRef.file)
    /\ ResetPositions(positions, originalVertices[1]) = positions

\* a reset has just undone a sculpted mesh
C2_Witness ==
  /\ call.op = "resetMesh"
  /\ call.pre # positions
  /\ call.pre # originalVertices[1]

\* C9. The snapshot of the original positions is what the loader delivered
\* for the sculpted mesh, whatever brush applications and resets have run
\* since, and it has one entry per current vertex.
C9_SnapshotImmutable ==
  meshRef # NoMesh =>
    /\ originalVertices = ArrayOf(FilePositions(meshRef.file))
    /\ Len(originalVertices[1]) = Len(positions)

\* a brush application has moved a vertex away from its snapshot
C9_Witness ==
  /\ Brushed
  /\ meshRef # NoMesh
  /\ \E i \in 1..Len(positions) : Moved(i) /\ positions[i] # originalVertices[1][i]

\* C10. Normal freshness: after a brush application, after a reset and in
\* every other state, the normals of the sculpted mesh are those of the
\* current positions.
C10_NormalsFresh ==
  meshRef # NoMesh => normals = ComputeVertexNormals(positions, index)

\* a brush application has changed a vertex and with it a normal
C10_Witness ==
  /\ Brushed
  /\ \E i \in 1..Len(positions) : Moved(i)
  /\ normals # ComputeVertexNormals(call.pre, index)

\* the vertex at v is strictly inside the sphere of the brush
Inside(v) == call.size > 0 /\ SqDist(v, call.point) < call.size * call.size

\* the square of the length of the displacement of vertex i
SqShift(i) == SqDist(positions[i], call.pre[i])

Still == \A i \in 1..Len(positions) : ~Moved(i)

\* C3. Within one stroke every brush application takes as the Move cursor
\* delta its cursor minus the cursor of the sample before it (the cursor of the
\* pointer down for the first one), with no other handler in between.
C3_DeltaFromPreviousSample ==
  (Brushed /\ call.tool = "MOVE" /\ call.sample \in {"first", "second", "later"}) =>
    call.delta = MouseDelta(call.cursor, call.prevCursor)

\* C4, as claimed. Falloff monotonicity for Sculpt, Smooth and Pinch: of two
\* vertices inside the radius, the nearer to the contact point is displaced by
\* at least as much as the farther.
C4_FalloffMonotone ==
  (Brushed /\ call.tool \in {"SCULPT", "SMOOTH", "PINCH"}) =>
    \A i, j \in 1..Len(positions) :
      (/\ SqDist(call.pre[i], call.point) < SqDist(call.pre[j], call.point)
       /\ Inside(call.pre[j]))
      => SqShift(i) >= SqShift(j)

\* C4, amended. Falloff monotonicity holds for Sculpt; Smooth and Pinch leave
\* a vertex at the contact point where it is, however far they move the
\* vertices around it.
C4_SculptMonotone ==
  /\ (Brushed /\ call.tool = "SCULPT") =>
       \A i, j \in 1..Len(positions) :
         (/\ SqDist(call.pre[i], call.point) < SqDist(call.pre[j], call.point)
          /\ Inside(call.pre[j]))
         => SqShift(i) >= SqShift(j)
  /\ (Brushed /\ call.tool \in {"SMOOTH", "PINCH"}) =>
       \A i \in 1..Len(positions) : call.pre[i] = call.point => ~Moved(i)

\* Sculpt has displaced a nearer vertex by more than a farther one, both inside
\* the radius
C4_Witness ==
  /\ Brushed
  /\ call.tool = "SCULPT"
  /\ \E i, j \in 1..Len(positions) :
       /\ SqDist(call.pre[i], call.point) < SqDist(call.pre[j], call.point)
       /\ Inside(call.pre[j])
       /\ SqShift(i) > SqShift(j)
       /\ SqShift(j) > 0

\* C5. A brush application with strength <= 0 changes no position, for every
\* tool.
C5_NonPositiveStrengthNoop == (Brushed /\ call.strength <= 0) => Still

\* C6. A brush application with radius <= 0 changes no position, for every
\* tool and contact point, also one that coincides with a vertex.
C6_NonPositiveRadiusNoop == (Brushed /\ call.size <= 0) => Still

\* a brush of radius <= 0 and nonzero strength was applied at a vertex
C6_Witness ==
  /\ Brushed
  /\ call.size <= 0
  /\ call.strength # 0
  /\ \E i \in 1..Len(positions) : call.pre[i] = call.point
  /\ call.tool = "MOVE" => call.delta # <<0, 0>>

\* C7. Sculpt applied without a surface normal changes no position, also of
\* the vertices inside the radius.
C7_SculptWithoutNormalNoop ==
  (Brushed /\ call.tool = "SCULPT" /\ call.normal = Undefined) => Still

\* Sculpt was applied without a normal, with a vertex inside the radius
C7_Witness ==
  /\ Brushed
  /\ call.tool = "SCULPT"
  /\ call.normal = Undefined
  /\ call.strength > 0
  /\ \E i \in 1..Len(positions) : Inside(call.pre[i])

\* C8. With the Move tool, the first brush application of a stroke, made at
\* the cursor of the pointer down, changes no vertex; the next application,
\* made at another cursor, moves every vertex inside the radius.
C8_MoveFirstSampleNoop ==
  [][/\ (/\ call'.op = "sculptMesh"
         /\ call'.tool = "MOVE"
         /\ call'.sample = "first"
         /\ call'.cursor = call'.prevCursor)
        => positions' = positions
     /\ (/\ call.op = "sculptMesh"
         /\ call.tool = "MOVE"
         /\ call.sample = "first"
         /\ call.cursor = call.prevCursor
         /\ call'.op = "sculptMesh"
         /\ call'.tool = "MOVE"
         /\ call'.cursor # call.cursor)
        => \A i \in 1..Len(positions) :
             (/\ call'.size > 0
              /\ SqDist(positions[i], call'.point) < call'.size * call'.size)
             => positions'[i] # positions[i]]_vars

\* the second application of a Move stroke, at another cursor than the first,
\* has made the first edit of the mesh
C8_Witness ==
  /\ Brushed
  /\ call.tool = "MOVE"
  /\ call.sample = "second"
  /\ call.cursor # call.prevCursor
  /\ edits = 1
  /\ call.pre = originalVertices[1]
  /\ \E i \in 1..Len(positions) : Moved(i)

\* C11. The left-button pointer down that begins a stroke takes the session
\* from idle to stroking and records the current cursor as the last cursor, the
\* one the handlers of the stroke read, and changes no position and no normal;
\* nothing else begins a stroke.
C11_BeginStroke ==
  [][/\ call'.op = "pointerDown" =>
          /\ ~isModifying
          /\ isModifying'
          /\ mouse' = mouse
          /\ lastMousePosition' = mouse
          /\ capturedLast' = mouse
          /\ positions' = positions
          /\ normals' = normals
     /\ (~isModifying /\ isModifying') => call'.op = "pointerDown"]_vars

\* a stroke has just begun on a sculpted mesh, at a cursor that was not the
\* recorded one
C11_Witness ==
  /\ call.op = "pointerDown"
  /\ isModifying
  /\ edits > 0
  /\ mouse # <<0, 0>>
  /\ lastMousePosition = mouse

\* C12. The pointer up (or leave) that ends a stroke changes no position, and
\* while no stroke is in progress no pointer move, on the mesh or off it,
\* applies the brush or changes a position: positions then change only by a
\* reset or a load.
C12_EndStrokeStops ==
  [][/\ (isModifying /\ ~isModifying') => (positions' = positions /\ normals' = normals)
     /\ ~isModifying =>
          /\ call'.op # "sculptMesh"
          /\ (call'.op # "resetMesh" /\ meshRef' = meshRef) => positions' = positions]_vars

\* after a stroke that deformed the mesh has ended, the pointer has moved over
\* the mesh to another cursor
C12_Witness ==
  /\ meshRef # NoMesh
  /\ ~isModifying
  /\ edits > 0
  /\ call.op = "none"
  /\ mouse # lastMousePosition
  /\ brushPosition # Zero3

\* C13. A reset leaves the stroke state as it is, the flag and the last
\* cursor, in a stroke and out of one, and a brush application that follows a
\* reset within a stroke works on the restored positions.
C13_ResetKeepsStroke ==
  [][/\ call'.op = "resetMesh" =>
          /\ isModifying' = isModifying
          /\ lastMousePosition' = lastMousePosition
          /\ capturedLast' = capturedLast
     /\ (call.op = "resetMesh" /\ call'.op = "sculptMesh") =>
          /\ isModifying
          /\ call'.pre = originalVertices[1]
          /\ \A i \in 1..Len(positions') :
                positions'[i] = SculptVertex(originalVertices[1][i], call'.point,
                                             call'.normal, matrixWorld, call'.tool,
                                             call'.size, call'.strength, call'.delta)]_vars

\* within a stroke, a brush application right after a reset that undid a
\* deformation has moved a vertex of the restored mesh
C13_Witness ==
  /\ Brushed
  /\ call.sample = "restored"
  /\ isModifying
  /\ call.pre = originalVertices[1]
  /\ \E i \in 1..Len(positions) : Moved(i)

\* C14. A change of tool, of brush size or of brush strength is possible in
\* every state, also within a stroke, and the next brush application uses the
\* new tool, radius and strength: every brush application uses the tool, the
\* size and the strength in force when it runs.
C14_BrushParamsInForce ==
  Brushed =>
    /\ call.tool = activeTool
    /\ call.size = brushSize
    /\ call.strength = brushStrength

\* the interpolation factor of Smooth for a vertex at v, as a fraction
SmoothFactor(v) ==
  Factor(call.strength, Falloff(DistanceTo(v, call.point), call.size), 1)

\* vertex i has not gone through the contact point to its other side
NotPast(i) ==
  Dot(VSub(positions[i], call.point), VSub(call.pre[i], call.point)) >= 0

\* C15. Smooth clamps its interpolation factor: for every strength and every
\* vertex inside the radius the factor of the interpolation toward the contact
\* point is in [0, 1], and the vertex is not moved past the contact point.
C15_SmoothFactorClamped ==
  (Brushed /\ call.tool = "SMOOTH") =>
    \A i \in 1..Len(positions) :
      Inside(call.pre[i]) =>
        /\ SmoothFactor(call.pre[i]).num >= 0
        /\ SmoothFactor(call.pre[i]).num <= SmoothFactor(call.pre[i]).den
        /\ NotPast(i)

SmoothOf(v) ==
  SculptVertex(v, call.point, call.normal, matrixWorld, "SMOOTH", call.size,
               call.strength, call.delta)

\* C17. Pinch pulls harder than Smooth: with the same mesh, radius, strength
\* and contact point, Pinch moves a vertex that is inside the radius and not at
\* the contact point strictly farther than Smooth moves it.
C17_PinchHarderThanSmooth ==
  (Brushed /\ call.tool = "PINCH") =>
    \A i \in 1..Len(positions) :
      (Inside(call.pre[i]) /\ call.pre[i] # call.point)
      => SqShift(i) > SqDist(SmoothOf(call.pre[i]), call.pre[i])

\* the displacement of vertex i
Shift(i) == VSub(positions[i], call.pre[i])

\* the normal of the brush application, as a direction of local space
LocalNormal == TransformDirection(call.normal, matrixWorld)

\* C18. Sculpt displaces every vertex inside the radius along one direction,
\* the normal at the contact point taken into local space, by strength times
\* falloff times the damping constant, whatever the vertex's own position and
\* normal.
C18_SculptCommonDirection ==
  (Brushed /\ call.tool = "SCULPT" /\ call.normal # Undefined) =>
    /\ \A i \in 1..Len(positions) :
         Inside(call.pre[i]) =>
           positions[i] =
             AddScaledVector(call.pre[i], LocalNormal,
                             Factor(call.strength,
                                    Falloff(DistanceTo(call.pre[i], call.point), call.size),
                                    1))
    /\ \A i \in 1..Len(positions) :
         (Inside(call.pre[i]) /\ call.strength > 0) =>
           \A c \in 1..3 : Sgn(Shift(i)[c]) = Sgn(LocalNormal[c])

\* Sculpt has displaced two vertices, by different amounts, and the own normal
\* of one of them is not the direction of its displacement
C18_Witness ==
  /\ Brushed
  /\ call.tool = "SCULPT"
  /\ call.normal # Undefined
  /\ \E i, j \in 1..Len(positions) :
       /\ Moved(i)
       /\ Moved(j)
       /\ Shift(i) # Shift(j)
       /\ Cross(ComputeVertexNormals(call.pre, index)[j], Shift(j)) # Zero3

\* C19. No brush application and no reset changes the placement of the mesh:
\* whatever strokes and resets have run, the local-to-world transform of the
\* sculpted mesh is the one processLoadedModel gave it.
C19_PlacementKept ==
  meshRef # NoMesh => matrixWorld = LoadedMatrix(FilePositions(meshRef.file))

\* a brush application has deformed a mesh that was deformed and reset before,
\* and the mesh is not at the identity placement
C19_Witness ==
  /\ Brushed
  /\ call.sample = "restored"
  /\ \E i \in 1..Len(positions) : Moved(i)
  /\ matrixWorld # IdentityMatrix

Loaded(p) ==
  /\ p \in pending
  /\ pending' = pending \ {p}
  /\ call'.op = "loadDone"

\* C21. A load that delivers no mesh, or a mesh without a vertex, fails: it
\* installs no sculpt target and captures no snapshot, so that it leaves
\* nothing for a stroke to change.
C21_EmptyLoadFails ==
  [][\A p \in pending :
       (Loaded(p) /\ FilePositions(p.file) = << >>) =>
         /\ meshRef' # p
         /\ meshRef' = meshRef
         /\ originalVertices' = originalVertices
         /\ positions' = positions]_vars

\* C22. In every state of the UI the brush size is within [0.05, 0.5] and the
\* brush strength within [1, 20], 0.2 and 5 at the start, and every brush
\* application runs with a positive radius and a positive strength.
C22_BrushInRange ==
  /\ brushSize = DefaultBrushSize
  /\ brushStrength = DefaultBrushStrength
  /\ [](/\ brushSize \in MinBrushSize..MaxBrushSize
        /\ brushStrength \in MinBrushStrength..MaxBrushStrength
        /\ Brushed => (call.size > 0 /\ call.strength > 0))

\* a brush application after the two thumbs were dragged to the low ends
C22_Witness ==
  /\ Brushed
  /\ call.size = MinBrushSize
  /\ call.strength = MinBrushStrength
  /\ call.pre # positions

\* C23. After an upload or Load Default Model has set isLoading, the model is
\* eventually loaded and isLoading eventually becomes false.
C23_LoadingEnds == isLoading ~> ~isLoading

\* C24. A pointer move of a stroke whose ray misses the mesh changes no vertex
\* and updates neither lastMousePosition nor the brush cursor; a brush
\* application is always an intersecting move of a stroke.
C24_MissChangesNothing ==
  [][(\A c \in Cursors :
        (isModifying /\ HandlePointerMove(c, NoHit)) =>
          (/\ positions' = positions
           /\ normals' = normals
           /\ lastMousePosition' = lastMousePosition
           /\ brushPosition' = brushPosition
           /\ ~Brushed'))
     /\ (Brushed' =>
           (\E d \in Cursors : \E x \in Intersections :
              x.hit /\ isModifying /\ HandlePointerMove(d, x)))]_vars

\* a stroke in which the pointer has moved off the mesh to another cursor
\* since the last sample
C24_Witness ==
  /\ isModifying
  /\ meshRef # NoMesh
  /\ call = Handler("none")
  /\ mouse # lastMousePosition
  /\ edits > 0

\* C25. A stroke begins only on a pointer down of the left button (button 0):
\* a pointer down of another button begins none.  It ends on pointer up and on
\* pointer leave alike, and on nothing else; once it has ended, no pointer
\* move, on the mesh or off it, changes a vertex before the next pointer down
\* of the left button.
C25_StrokeBounds ==
  [][/\ (~isModifying /\ isModifying') => PointerDown(0)
     /\ (~isModifying /\ PointerDown(2)) => ~isModifying'
     /\ (PointerUp("pointerup") \/ PointerUp("pointerleave")) => ~isModifying'
     /\ (isModifying /\ ~isModifying') =>
          (PointerUp("pointerup") /\ PointerUp("pointerleave"))
     /\ ~isModifying =>
          (\A c \in Cursors : \A x \in Intersections :
             HandlePointerMove(c, x) =>
               (positions' = positions /\ normals' = normals /\ ~isModifying'))]_vars

\* a stroke that deformed the mesh has ended, and the pointer has since moved
\* to another cursor
C25_Witness ==
  /\ meshRef # NoMesh
  /\ ~isModifying
  /\ originalVertices # NoArray
  /\ positions # originalVertices[1]
  /\ call = Handler("none")
  /\ mouse # lastMousePosition

\* C26. Once Clear Model has set the model URL to null, no mesh is sculptable:
\* the sculpt target is null, so that the pointer handlers are detached, and
\* no pointer event changes a vertex.
C26_ClearedNotSculptable ==
  [][modelUrl' = NULL =>
       /\ meshRef' = NoMesh
       /\ ~Brushed'
       /\ (meshRef' = meshRef /\ call'.op # "resetMesh") => positions' = positions]_vars

\* C27. isLoading is true in every state in which a load is in flight, also
\* when the model URL changed again before an earlier load ended, and it is
\* false once no load is in flight.
C27_LoadingWhileInFlight == isLoading <=> pending # {}

\* C28. Whenever a sculpt target is set, the stored snapshot is the one
\* captured from that same mesh at its load: it has the positions the loader
\* delivered for that mesh, one per vertex; target and snapshot are set
\* together by the load that delivers the mesh and are null together, in
\* whatever order overlapping loads end.
C28_SnapshotOfTarget ==
  /\ [](/\ (meshRef = NoMesh) <=> (originalVertices = NoArray)
        /\ meshRef # NoMesh =>
             /\ originalVertices = ArrayOf(FilePositions(meshRef.file))
             /\ Len(originalVertices[1]) = Len(positions))
  /\ [][\A p \in pending :
          (Loaded(p) /\ HasMesh(p.file)) =>
            (meshRef' = p /\ originalVertices' = ArrayOf(FilePositions(p.file)))]_vars

\* the second of two overlapping loads has ended first, its mesh has been
\* sculpted, and the first load is still in flight
C28_Witness ==
  /\ meshRef = [url |-> 2, file |-> "fold"]
  /\ pending = {[url |-> 1, file |-> "quad"]}
  /\ Brushed
  /\ call.pre # positions
  /\ positions # originalVertices[1]

\* the reading of drop d has ended, or never began
ReadingEnded(d) == \A r \in uploader.readers : r.drop # d

\* C29. For each dropped file exactly one of onModelLoaded and onError is
\* invoked, once, by the time its reading has ended, and none before; and
\* isLoading is false when the handler that invoked it returns.
C29_ExactlyOneCallback ==
  \A d \in 1..Len(uploader.log) :
    IF ReadingEnded(d)
    THEN /\ uploader.log[d].onModelLoaded + uploader.log[d].onError = 1
         /\ uploader.log[d].isLoading = FALSE
    ELSE uploader.log[d].onModelLoaded + uploader.log[d].onError = 0

\* C30. Move changes only the local x and y of a vertex: the z of every vertex
\* is what it was before the application, and under a cursor delta that is
\* purely horizontal so is its y.
C30_MoveKeepsDepth ==
  (Brushed /\ call.tool = "MOVE") =>
    \A i \in 1..Len(positions) :
      /\ positions[i][3] = call.pre[i][3]
      /\ call.delta[2] = 0 => positions[i][2] = call.pre[i][2]

\* Move has shifted a vertex under a purely horizontal cursor delta
C30_Witness ==
  /\ Brushed
  /\ call.tool = "MOVE"
  /\ call.delta[1] # 0
  /\ call.delta[2] = 0
  /\ \E i \in 1..Len(positions) : positions[i][1] # call.pre[i][1]

====
